---- MODULE Spec2Model ----
(***************************************************************************)
(* auto-git-commit.py: a watchdog Observer delivers filesystem events to   *)
(* GitAutoCommit.on_modified, which filters them against                   *)
(* IGNORED_EXTENSIONS and runs stage_commit_and_push (git add -A, commit,  *)
(* push) on the module-level repository handle.  The main thread sleeps    *)
(* until KeyboardInterrupt, then stops and joins the observer.             *)
(***************************************************************************)
EXTENDS Naturals, Integers, Sequences, FiniteSets, TLC

(* ------------------------------ bounds --------------------------------- *)

\* Number of filesystem notifications the emitter produces in one run.
MaxEvents == 2

\* Longest generated path (in characters) fed to the filter in SpecFilter.
MaxPathLen == 5

(* ------------------------ configuration (lines 8-12) ------------------- *)

\* line 9, written here without the accents of the source string
COMMIT_MESSAGE == "Auto-commit: Actualizacion de codigo"

GITHUB_REMOTE == "origin"

BRANCH_NAME == "main"

IGNORED_EXTENSIONS == <<".git", ".gitignore", ".vscode", ".idea">>

(* ------------------------------ state ---------------------------------- *)

VARIABLES
    mainPc,     \* main thread: "load","start","loop","stopping","join","exited"
    exitCode,   \* process exit status, -1 while the process runs
    stopped,    \* the observer thread's stop flag (set by observer.stop())
    handlers,   \* TRUE while event_handler is scheduled on the observer
    obsPc,      \* observer thread: "unstarted","check","get","dispatch","ended","crashed"
    queue,      \* the observer's event queue: notification ids, 0 is the stop sentinel
    events,     \* every notification the emitter produced, by id
    hPc,        \* per notification: position of its handler invocation
    filtered,   \* per notification: times the ignore filter examined it
    published,  \* per notification: times stage_commit_and_push was invoked
    steps,      \* per notification: the git calls its publish cycle made, in order
    printed,    \* per notification: the lines its handler printed
    ahead,      \* per notification: the ids still queued when it arrived
    worktree,   \* files with unstaged changes
    index,      \* files staged for the next commit
    commits,    \* local history created by this process
    remote,     \* number of those commits present on origin/main
    config,     \* the module globals of lines 8-12 of auto-git-commit.py
    app,        \* the calculator program that runs, "none" in the watcher
    oPc,        \* position of the calculator program
    oReq,       \* the inputs of the calculator's current operation
    oTyped,     \* the text last typed at a prompt of the command-line calculator
    oCalc,      \* what the last crear_calculadora call returned or raised
    oOut        \* the calculator's last output (line, label text or response)

watcherVars ==
    <<mainPc, exitCode, stopped, handlers, obsPc, queue, events, hPc,
      filtered, published, steps, printed, ahead, worktree, index, commits, remote>>

ohmVars == <<app, oPc, oReq, oTyped, oCalc, oOut>>

\* what no step of the watcher writes
otherVars == <<config, ohmVars>>

vars == <<watcherVars, config, ohmVars>>

repoVars == <<worktree, index, commits, remote>>

Ids == 1..MaxEvents

(* --------------------------- the ignore filter ------------------------- *)

\* str.startswith at offset k, compared character by character
RECURSIVE MatchAt(_, _, _, _)
MatchAt(pat, s, k, j) ==
    IF j > Len(pat) THEN TRUE
    ELSE IF k + j > Len(s) THEN FALSE
    ELSE IF SubSeq(s, k + j, k + j) # SubSeq(pat, j, j) THEN FALSE
    ELSE MatchAt(pat, s, k, j + 1)

\* Python's `pat in s` on strings: scan the start offsets left to right
RECURSIVE ScanFrom(_, _, _)
ScanFrom(pat, s, k) ==
    IF k + Len(pat) > Len(s) THEN FALSE
    ELSE IF MatchAt(pat, s, k, 1) THEN TRUE
    ELSE ScanFrom(pat, s, k + 1)

\* a filter that only looks at the start of the path
StrInPrefixOnly(pat, s) == MatchAt(pat, s, 0, 1)

StrIn(pat, s) == ScanFrom(pat, s, 0)

\* any(ignored in file_path for ignored in IGNORED_EXTENSIONS)
RECURSIVE AnyIgnored(_, _)
AnyIgnored(file_path, n) ==
    IF n > Len(IGNORED_EXTENSIONS) THEN FALSE
    ELSE IF StrIn(IGNORED_EXTENSIONS[n], file_path) THEN TRUE
    ELSE AnyIgnored(file_path, n + 1)

\* a filter without the ignore list
RelevantFilesOnly(event) == ~event.is_directory

\* the two nested conditions of on_modified
Relevant(event) ==
    IF ~event.is_directory
    THEN ~AnyIgnored(event.src_path, 1)
    ELSE FALSE

(* ------------------------- the watched tree ---------------------------- *)

\* Regular files of the working tree the emitter reports on.
WorkFiles == {"src/app.py", "README.md", "notes.txt"}

FileEvent(type, path, dir) ==
    [event_type |-> type, src_path |-> path, is_directory |-> dir]

\* The notifications the emitter can produce.
Events ==
    { FileEvent("modified", "src/app.py", FALSE),
      FileEvent("modified", "README.md", FALSE),
      FileEvent("modified", ".git/HEAD", FALSE),
      FileEvent("modified", "src", TRUE),
      FileEvent("created", "notes.txt", FALSE) }

\* str(e) of the exception a git call raises.  The empty text (as of
\* Exception()) is the one that decides whether a printed error message can
\* be empty; any other text only lengthens the line.
Errors == {""}

(* ------------------------------- Init ---------------------------------- *)

\* lines 8-12 as the interpreter binds them when the module loads
Globals ==
    [ message |-> COMMIT_MESSAGE, remote |-> GITHUB_REMOTE,
      branch |-> BRANCH_NAME, ignored |-> IGNORED_EXTENSIONS ]

\* no calculator program runs beside the watcher
OhmOff ==
    /\ app = "none"
    /\ oPc = "off"
    /\ oReq = <<>>
    /\ oTyped = ""
    /\ oCalc = "none"
    /\ oOut = <<>>

Init ==
    /\ mainPc = "load"
    /\ exitCode = -1
    /\ stopped = FALSE
    /\ handlers = FALSE
    /\ obsPc = "unstarted"
    /\ queue = <<>>
    /\ events = <<>>
    /\ hPc = [i \in Ids |-> "none"]
    /\ filtered = [i \in Ids |-> 0]
    /\ published = [i \in Ids |-> 0]
    /\ steps = [i \in Ids |-> <<>>]
    /\ printed = [i \in Ids |-> <<>>]
    /\ ahead = [i \in Ids |-> {}]
    /\ worktree = {}
    /\ index = {}
    /\ commits = <<>>
    /\ remote = 0
    /\ config = Globals
    /\ OhmOff

(* ---------------------------- main thread ------------------------------ *)

\* line 14: repo = Repo(REPO_PATH)
LoadRepo ==
    /\ mainPc = "load"
    /\ mainPc' = "start"
    /\ UNCHANGED <<exitCode, stopped, handlers, obsPc, queue, events, hPc,
                   filtered, published, steps, printed, ahead>>
    /\ UNCHANGED otherVars
    /\ UNCHANGED repoVars

\* a failed load that is swallowed and reported as a normal exit
LoadRepoFailQuiet ==
    /\ mainPc = "load"
    /\ mainPc' = "exited"
    /\ exitCode' = 0
    /\ UNCHANGED <<stopped, handlers, obsPc, queue, events, hPc,
                   filtered, published, steps, printed, ahead>>
    /\ UNCHANGED otherVars
    /\ UNCHANGED repoVars

\* line 14 raising (invalid or inaccessible path): the script dies at import
LoadRepoFail ==
    /\ mainPc = "load"
    /\ mainPc' = "exited"
    /\ exitCode' = 1
    /\ UNCHANGED <<stopped, handlers, obsPc, queue, events, hPc,
                   filtered, published, steps, printed, ahead>>
    /\ UNCHANGED otherVars
    /\ UNCHANGED repoVars

\* lines 44-47: schedule the handler and start the observer thread
StartObserver ==
    /\ mainPc = "start"
    /\ mainPc' = "loop"
    /\ handlers' = TRUE
    /\ obsPc' = "check"
    /\ UNCHANGED <<exitCode, stopped, queue, events, hPc,
                   filtered, published, steps, printed, ahead>>
    /\ UNCHANGED otherVars
    /\ UNCHANGED repoVars

\* lines 46-47 raising (the watch cannot be started)
StartObserverFail ==
    /\ mainPc = "start"
    /\ mainPc' = "exited"
    /\ exitCode' = 1
    /\ UNCHANGED <<stopped, handlers, obsPc, queue, events, hPc,
                   filtered, published, steps, printed, ahead>>
    /\ UNCHANGED otherVars
    /\ UNCHANGED repoVars

\* lines 49-53: KeyboardInterrupt is raised inside the sleep loop and caught,
\* and observer.stop() begins by setting the observer thread's stop flag
Interrupt ==
    /\ mainPc = "loop"
    /\ mainPc' = "stopping"
    /\ stopped' = TRUE
    /\ UNCHANGED <<exitCode, handlers, obsPc, queue, events, hPc,
                   filtered, published, steps, printed, ahead>>
    /\ UNCHANGED otherVars
    /\ UNCHANGED repoVars

\* line 53, second half: under the observer lock (held by the observer thread
\* for the whole of a dispatch) the handlers are unscheduled, then the stop
\* sentinel is queued
ObserverStopUnschedule ==
    /\ mainPc = "stopping"
    /\ obsPc # "dispatch"
    /\ mainPc' = "join"
    /\ handlers' = FALSE
    /\ queue' = Append(queue, 0)
    /\ UNCHANGED <<exitCode, stopped, obsPc, events, hPc,
                   filtered, published, steps, printed, ahead>>
    /\ UNCHANGED otherVars
    /\ UNCHANGED repoVars

\* an exit that does not wait for the observer thread
ObserverJoinNoWait ==
    /\ mainPc = "join"
    /\ mainPc' = "exited"
    /\ exitCode' = 0
    /\ UNCHANGED <<stopped, handlers, obsPc, queue, events, hPc,
                   filtered, published, steps, printed, ahead>>
    /\ UNCHANGED otherVars
    /\ UNCHANGED repoVars

\* line 54: observer.join() returns once the observer thread has ended, and
\* the script falls off its end
ObserverJoin ==
    /\ mainPc = "join"
    /\ obsPc \in {"ended", "crashed"}
    /\ mainPc' = "exited"
    /\ exitCode' = 0
    /\ UNCHANGED <<stopped, handlers, obsPc, queue, events, hPc,
                   filtered, published, steps, printed, ahead>>
    /\ UNCHANGED otherVars
    /\ UNCHANGED repoVars

(* ------------------------------ emitter -------------------------------- *)

\* The emitter thread of the scheduled watch (line 46) queues one event per
\* filesystem notification; a notification about a regular file of the
\* working tree comes with a change of that file that git can see.
FsNotify(e) ==
    /\ handlers
    /\ Len(events) < MaxEvents
    /\ events' = Append(events, e)
    /\ queue' = Append(queue, Len(events) + 1)
    /\ ahead' = [ahead EXCEPT ![Len(events) + 1] = {queue[k] : k \in 1..Len(queue)}]
    /\ worktree' = IF e.src_path \in WorkFiles /\ ~e.is_directory
                   THEN worktree \cup {e.src_path}
                   ELSE worktree
    /\ UNCHANGED <<mainPc, exitCode, stopped, handlers, obsPc, hPc,
                   filtered, published, steps, printed, index, commits, remote>>
    /\ UNCHANGED otherVars

(* -------------------------- observer thread ---------------------------- *)

\* the loop test of the observer thread started on line 47
ObsCheck ==
    /\ obsPc = "check"
    /\ obsPc' = IF stopped THEN "ended" ELSE "get"
    /\ UNCHANGED <<mainPc, exitCode, stopped, handlers, queue, events, hPc,
                   filtered, published, steps, printed, ahead>>
    /\ UNCHANGED otherVars
    /\ UNCHANGED repoVars

\* a dispatcher that hands each event to a thread of its own
ObsGetThreaded ==
    /\ obsPc = "get"
    /\ queue # <<>>
    /\ queue' = Tail(queue)
    /\ LET id == Head(queue) IN
           IF id # 0 /\ handlers /\ events[id].event_type = "modified"
           THEN hPc' = [hPc EXCEPT ![id] = "on_modified"]
           ELSE hPc' = hPc
    /\ obsPc' = "check"
    /\ UNCHANGED <<mainPc, exitCode, stopped, handlers, events,
                   filtered, published, steps, printed, ahead>>
    /\ UNCHANGED otherVars
    /\ UNCHANGED repoVars

\* a dispatcher that calls on_modified for every type of event
ObsGetAnyType ==
    /\ obsPc = "get"
    /\ queue # <<>>
    /\ queue' = Tail(queue)
    /\ LET id == Head(queue) IN
           IF id # 0 /\ handlers
           THEN /\ hPc' = [hPc EXCEPT ![id] = "on_modified"]
                /\ obsPc' = "dispatch"
           ELSE /\ hPc' = hPc
                /\ obsPc' = "check"
    /\ UNCHANGED <<mainPc, exitCode, stopped, handlers, events,
                   filtered, published, steps, printed, ahead>>
    /\ UNCHANGED otherVars
    /\ UNCHANGED repoVars

\* The observer thread takes the next queue entry and, when the handler is
\* still scheduled, dispatches it: a "modified" event calls on_modified
\* (line 17) on this same thread, any other type reaches only the inherited
\* no-op callbacks.
ObsGet ==
    /\ obsPc = "get"
    /\ queue # <<>>
    /\ queue' = Tail(queue)
    /\ LET id == Head(queue) IN
           IF id # 0 /\ handlers /\ events[id].event_type = "modified"
           THEN /\ hPc' = [hPc EXCEPT ![id] = "on_modified"]
                /\ obsPc' = "dispatch"
           ELSE /\ hPc' = hPc
                /\ obsPc' = "check"
    /\ UNCHANGED <<mainPc, exitCode, stopped, handlers, events,
                   filtered, published, steps, printed, ahead>>
    /\ UNCHANGED otherVars
    /\ UNCHANGED repoVars

(* ------------------------------ handler -------------------------------- *)

ModifiedLine(file_path) == "Archivo modificado: " \o file_path

SuccessLine == "Cambios subidos a GitHub exitosamente."

\* an error line made of the exception text alone
ErrorLineBare(e) == e

ErrorLine(e) == "Error al subir cambios: " \o e

Call(op, result) == [op |-> op, result |-> result]

\* lines 17-25: the filter, and for a relevant event the call of
\* stage_commit_and_push
OnModified(i) ==
    /\ hPc[i] = "on_modified"
    /\ filtered' = [filtered EXCEPT ![i] = @ + 1]
    /\ IF Relevant(events[i])
       THEN /\ printed' = [printed EXCEPT ![i] = Append(@, ModifiedLine(events[i].src_path))]
            /\ published' = [published EXCEPT ![i] = @ + 1]
            /\ hPc' = [hPc EXCEPT ![i] = "add"]
            /\ obsPc' = obsPc
       ELSE /\ hPc' = [hPc EXCEPT ![i] = "returned"]
            /\ obsPc' = "check"
            /\ UNCHANGED <<printed, published>>
    /\ UNCHANGED <<mainPc, exitCode, stopped, handlers, queue, events, steps, ahead>>
    /\ UNCHANGED otherVars
    /\ UNCHANGED repoVars

\* a handler per git call: the failure is printed and the next call is made
CaughtAndContinue(i, op, e) ==
    /\ steps' = [steps EXCEPT ![i] = Append(@, Call(op, "raised"))]
    /\ printed' = [printed EXCEPT ![i] = Append(@, ErrorLine(e))]
    /\ hPc' = [hPc EXCEPT ![i] =
                  IF op = "add" THEN "commit"
                  ELSE IF op = "commit" THEN "push" ELSE "returned"]
    /\ obsPc' = IF op = "push" THEN "check" ELSE obsPc
    /\ UNCHANGED repoVars

\* a handler that undoes the cycle's commit when the push raises
CaughtWithRollback(i, op, e) ==
    /\ steps' = [steps EXCEPT ![i] = Append(@, Call(op, "raised"))]
    /\ printed' = [printed EXCEPT ![i] = Append(@, ErrorLine(e))]
    /\ hPc' = [hPc EXCEPT ![i] = "returned"]
    /\ obsPc' = "check"
    /\ IF op = "push" /\ commits # <<>>
       THEN /\ commits' = SubSeq(commits, 1, Len(commits) - 1)
            /\ index' = index \cup commits[Len(commits)].files
            /\ UNCHANGED <<worktree, remote>>
       ELSE UNCHANGED repoVars

\* no handler: the exception leaves on_modified and ends the observer thread
Uncaught(i, op, e) ==
    /\ steps' = [steps EXCEPT ![i] = Append(@, Call(op, "raised"))]
    /\ printed' = printed
    /\ hPc' = [hPc EXCEPT ![i] = "returned"]
    /\ obsPc' = "crashed"
    /\ UNCHANGED repoVars

\* lines 40-41: the exception of a git call is caught and printed, and
\* stage_commit_and_push returns normally to on_modified and the observer
Caught(i, op, e) ==
    /\ steps' = [steps EXCEPT ![i] = Append(@, Call(op, "raised"))]
    /\ printed' = [printed EXCEPT ![i] = Append(@, ErrorLine(e))]
    /\ hPc' = [hPc EXCEPT ![i] = "returned"]
    /\ obsPc' = "check"
    /\ UNCHANGED repoVars

\* line 30: repo.git.add(A=True)
GitAdd(i) ==
    /\ hPc[i] = "add"
    /\ \/ /\ index' = index \cup worktree
          /\ worktree' = {}
          /\ steps' = [steps EXCEPT ![i] = Append(@, Call("add", "ok"))]
          /\ hPc' = [hPc EXCEPT ![i] = "commit"]
          /\ UNCHANGED <<obsPc, printed, commits, remote>>
       \/ \E e \in Errors : Caught(i, "add", e)
    /\ UNCHANGED <<mainPc, exitCode, stopped, handlers, queue, events,
                   filtered, published, ahead>>
    /\ UNCHANGED otherVars

\* a commit whose message names the cycle that made it
NewCommitPerChange(i) ==
    [message |-> IF i = 1 THEN config.message ELSE "Auto-commit", files |-> index, cycle |-> i]

\* The commit object index.commit writes: the staged tree on top of HEAD,
\* whether or not anything is staged.
NewCommit(i) == [message |-> config.message, files |-> index, cycle |-> i]

\* line 33: repo.index.commit(COMMIT_MESSAGE)
GitCommit(i) ==
    /\ hPc[i] = "commit"
    /\ \/ /\ commits' = Append(commits, NewCommit(i))
          /\ index' = {}
          /\ steps' = [steps EXCEPT ![i] = Append(@, Call("commit", "ok"))]
          /\ hPc' = [hPc EXCEPT ![i] = "push"]
          /\ UNCHANGED <<obsPc, printed, worktree, remote>>
       \/ \E e \in Errors : Caught(i, "commit", e)
    /\ UNCHANGED <<mainPc, exitCode, stopped, handlers, queue, events,
                   filtered, published, ahead>>
    /\ UNCHANGED otherVars

\* lines 36-39: origin.push(BRANCH_NAME) and the success line.  The push
\* either transfers the local commits, or fails by raising, or fails
\* without raising (the failure is only flagged in the returned push info,
\* which the code does not read).
GitPush(i) ==
    /\ hPc[i] = "push"
    /\ \/ /\ remote' = Len(commits)
          /\ steps' = [steps EXCEPT ![i] = Append(@, Call("push", "ok"))]
          /\ printed' = [printed EXCEPT ![i] = Append(@, SuccessLine)]
          /\ hPc' = [hPc EXCEPT ![i] = "returned"]
          /\ obsPc' = "check"
          /\ UNCHANGED <<worktree, index, commits>>
       \/ /\ steps' = [steps EXCEPT ![i] = Append(@, Call("push", "flagged"))]
          /\ printed' = [printed EXCEPT ![i] = Append(@, SuccessLine)]
          /\ hPc' = [hPc EXCEPT ![i] = "returned"]
          /\ obsPc' = "check"
          /\ UNCHANGED repoVars
       \/ \E e \in Errors : Caught(i, "push", e)
    /\ UNCHANGED <<mainPc, exitCode, stopped, handlers, queue, events,
                   filtered, published, ahead>>
    /\ UNCHANGED otherVars

(* --------------------------- specification ----------------------------- *)

Next ==
    \/ LoadRepo
    \/ LoadRepoFail
    \/ StartObserver
    \/ StartObserverFail
    \/ Interrupt
    \/ ObserverStopUnschedule
    \/ ObserverJoin
    \/ \E e \in Events : FsNotify(e)
    \/ ObsCheck
    \/ ObsGet
    \/ \E i \in Ids : OnModified(i)
    \/ \E i \in Ids : GitAdd(i)
    \/ \E i \in Ids : GitCommit(i)
    \/ \E i \in Ids : GitPush(i)

Spec == Init /\ [][Next]_vars

\* Both threads keep running and every git call returns; the interrupt and
\* the filesystem notifications are the environment's and may never come.
Fairness ==
    /\ WF_vars(LoadRepo \/ LoadRepoFail)
    /\ WF_vars(StartObserver \/ StartObserverFail)
    /\ WF_vars(ObserverStopUnschedule)
    /\ WF_vars(ObserverJoin)
    /\ WF_vars(ObsCheck)
    /\ WF_vars(ObsGet)
    /\ \A i \in Ids :
           /\ WF_vars(OnModified(i))
           /\ WF_vars(GitAdd(i))
           /\ WF_vars(GitCommit(i))
           /\ WF_vars(GitPush(i))

FairSpec == Spec /\ Fairness

(* ------------------- the filter on arbitrary paths ---------------------- *)

Alphabet == {".", "g", "i", "t"}

\* all strings over Alphabet of at most n characters
RECURSIVE Strs(_)
Strs(n) ==
    IF n = 0 THEN {""}
    ELSE LET S == Strs(n - 1) IN S \cup {s \o c : s \in S, c \in Alphabet}

SamplePaths ==
    { "", "src/app.py", "README.md", ".git/HEAD", ".gitignore",
      "my.gitignore.md", ".vscode/settings.json", ".idea/workspace.xml",
      "docs/.vscod", "idea.txt", "a.git", "src/.git", "vscode.md" }

FilterInputs ==
    { FileEvent("modified", p, d) :
        p \in Strs(MaxPathLen) \cup SamplePaths, d \in BOOLEAN }

\* The observer thread has just dispatched one modified event to
\* on_modified; the event is any of FilterInputs.
InitFilter ==
    /\ mainPc = "loop"
    /\ exitCode = -1
    /\ stopped = FALSE
    /\ handlers = TRUE
    /\ obsPc = "dispatch"
    /\ queue = <<>>
    /\ \E e \in FilterInputs : events = <<e>>
    /\ hPc = [i \in Ids |-> IF i = 1 THEN "on_modified" ELSE "none"]
    /\ filtered = [i \in Ids |-> 0]
    /\ published = [i \in Ids |-> 0]
    /\ steps = [i \in Ids |-> <<>>]
    /\ printed = [i \in Ids |-> <<>>]
    /\ ahead = [i \in Ids |-> {}]
    /\ worktree = {}
    /\ index = {}
    /\ commits = <<>>
    /\ remote = 0
    /\ config = Globals
    /\ OhmOff

NextFilter == \E i \in Ids : OnModified(i)

SpecFilter == InitFilter /\ [][NextFilter]_vars

(* ------------------- the dispatch on the event type -------------------- *)

\* the event types a watchdog emitter reports
EventTypes == {"created", "deleted", "modified", "moved", "closed", "opened"}

DispatchInputs ==
    { FileEvent(t, p, d) : t \in EventTypes, p \in SamplePaths, d \in BOOLEAN }

\* The watch runs and the emitter has queued one event of any type, about
\* any of SamplePaths, for the observer thread to take.
InitDispatch ==
    /\ mainPc = "loop"
    /\ exitCode = -1
    /\ stopped = FALSE
    /\ handlers = TRUE
    /\ obsPc = "get"
    /\ queue = <<1>>
    /\ \E e \in DispatchInputs : events = <<e>>
    /\ hPc = [i \in Ids |-> "none"]
    /\ filtered = [i \in Ids |-> 0]
    /\ published = [i \in Ids |-> 0]
    /\ steps = [i \in Ids |-> <<>>]
    /\ printed = [i \in Ids |-> <<>>]
    /\ ahead = [i \in Ids |-> {}]
    /\ worktree = {}
    /\ index = {}
    /\ commits = <<>>
    /\ remote = 0
    /\ config = Globals
    /\ OhmOff

NextDispatch ==
    \/ ObsCheck
    \/ ObsGet
    \/ \E i \in Ids : OnModified(i)
    \/ \E i \in Ids : GitAdd(i)
    \/ \E i \in Ids : GitCommit(i)
    \/ \E i \in Ids : GitPush(i)

SpecDispatch == InitDispatch /\ [][NextDispatch]_vars

(* ------------- the notifications the publisher causes itself ----------- *)

\* the git calls of one cycle, in the order of lines 30-37
GitOps == <<"add", "commit", "push">>

\* The watch of line 46 is recursive over REPO_PATH and so covers the
\* repository's .git directory: the file each git call rewrites there.
GitPath(op) ==
    IF op = "add" THEN ".git/index"
    ELSE IF op = "commit" THEN ".git/refs/heads/main"
    ELSE ".git/refs/remotes/origin/main"

GitPaths == {GitPath("add"), GitPath("commit"), GitPath("push")}

\* ids of the notifications of a run with the publisher's own ones: each
\* external one can start one cycle, which makes three git calls
SelfIds == 1..(4 * MaxEvents)

ReturnedOk(call) == call.result = "ok"

\* The git calls that returned, in the order they were made: the handlers
\* run one after the other in the order of the ids, and each appends its
\* calls to steps.
RECURSIVE WritesFrom(_)
WritesFrom(i) ==
    IF i > 4 * MaxEvents THEN <<>>
    ELSE SelectSeq(steps[i], ReturnedOk) \o WritesFrom(i + 1)

\* number of notifications produced so far about a file under .git that
\* the publisher rewrites
SelfCount ==
    Cardinality({j \in 1..Len(events) : events[j].src_path \in GitPaths})

\* number of notifications that came from outside the publisher
ExternalCount == Len(events) - SelfCount

\* The external notifications of this specification: one the filter
\* accepts and one it rejects.
ExternalEvents == {e \in Events : e.src_path \in {"src/app.py", ".git/HEAD"}}

\* The watch runs, nothing has happened yet.
InitSelf ==
    /\ mainPc = "loop"
    /\ exitCode = -1
    /\ stopped = FALSE
    /\ handlers = TRUE
    /\ obsPc = "check"
    /\ queue = <<>>
    /\ events = <<>>
    /\ hPc = [i \in SelfIds |-> "none"]
    /\ filtered = [i \in SelfIds |-> 0]
    /\ published = [i \in SelfIds |-> 0]
    /\ steps = [i \in SelfIds |-> <<>>]
    /\ printed = [i \in SelfIds |-> <<>>]
    /\ ahead = [i \in SelfIds |-> {}]
    /\ worktree = {}
    /\ index = {}
    /\ commits = <<>>
    /\ remote = 0
    /\ config = Globals
    /\ OhmOff

\* a notification caused by something other than the publisher (the
\* arrival snapshot ahead is not recorded in this specification)
FsNotifyExternal(e) ==
    /\ handlers
    /\ ExternalCount < MaxEvents
    /\ Len(events) < 4 * MaxEvents
    /\ events' = Append(events, e)
    /\ queue' = Append(queue, Len(events) + 1)
    /\ worktree' = IF e.src_path \in WorkFiles /\ ~e.is_directory
                   THEN worktree \cup {e.src_path}
                   ELSE worktree
    /\ UNCHANGED <<mainPc, exitCode, stopped, handlers, obsPc, hPc, filtered,
                   published, steps, printed, ahead, index, commits, remote>>
    /\ UNCHANGED otherVars

\* The emitter thread reports, some time after the call returned, the
\* modification a git call of lines 30-37 made under .git; it reports the
\* modifications in the order they were made.
SelfNotify ==
    /\ handlers
    /\ SelfCount < Len(WritesFrom(1))
    /\ Len(events) < 4 * MaxEvents
    /\ events' = Append(events,
                    FileEvent("modified", GitPath(WritesFrom(1)[SelfCount + 1].op), FALSE))
    /\ queue' = Append(queue, Len(events) + 1)
    /\ UNCHANGED <<mainPc, exitCode, stopped, handlers, obsPc, hPc,
                   filtered, published, steps, printed, ahead>>
    /\ UNCHANGED otherVars
    /\ UNCHANGED repoVars

NextSelf ==
    \/ \E e \in ExternalEvents : FsNotifyExternal(e)
    \/ SelfNotify
    \/ ObsCheck
    \/ ObsGet
    \/ \E i \in SelfIds : OnModified(i)
    \/ \E i \in SelfIds : GitAdd(i)
    \/ \E i \in SelfIds : GitCommit(i)
    \/ \E i \in SelfIds : GitPush(i)

SpecSelf == InitSelf /\ [][NextSelf]_vars

\* The emitter and the observer thread keep running and every git call
\* returns; the external modifications are the environment's.
FairnessSelf ==
    /\ WF_vars(SelfNotify)
    /\ WF_vars(ObsCheck)
    /\ WF_vars(ObsGet)
    /\ \A i \in SelfIds :
           /\ WF_vars(OnModified(i))
           /\ WF_vars(GitAdd(i))
           /\ WF_vars(GitCommit(i))
           /\ WF_vars(GitPush(i))

FairSelf == SpecSelf /\ FairnessSelf

(* ===================== the Ohm's-law calculators ======================= *)
(* ley-ohm-calculadora.py (command line), ley-ohm-desktop.py (Tk) and      *)
(* ley-ohm-django.py (web view) share three calculator classes and the     *)
(* factory FabricaCalculadoraOhm; each front end reads a tipo and two      *)
(* numbers, converts them with float(), calls the factory and prints,      *)
(* shows or returns the result formatted with ".2f".                       *)

\* Longest text (in characters) typed at a prompt, into an entry or sent in
\* a form field.
MaxInputLen == 2

InputAlphabet == {"0", "3", "-", "x"}

\* all strings over InputAlphabet of at most n characters
RECURSIVE Texts(_)
Texts(n) ==
    IF n = 0 THEN {""}
    ELSE LET S == Texts(n - 1) IN S \cup {s \o c : s \in S, c \in InputAlphabet}

InputTexts == Texts(MaxInputLen)

(* ------------------------------ numbers -------------------------------- *)

\* A float as sign and magnitude num/den, which tells -0.0 from 0.0; exc is
\* the name of the exception raised instead of a value, "" when none.
Number(neg, num, den) == [exc |-> "", neg |-> neg, num |-> num, den |-> den]

Raise(exc) == [exc |-> exc, neg |-> FALSE, num |-> 0, den |-> 1]

DigitChars == <<"0", "1", "2", "3", "4", "5", "6", "7", "8", "9">>

IsDigit(c) == \E d \in 1..Len(DigitChars) : DigitChars[d] = c

DigitValue(c) == (CHOOSE d \in 1..Len(DigitChars) : DigitChars[d] = c) - 1

\* the value of the decimal digits of s from position k on, -1 when a
\* character is not a digit
RECURSIVE DigitsValue(_, _, _)
DigitsValue(s, k, acc) ==
    IF k > Len(s) THEN acc
    ELSE IF ~IsDigit(SubSeq(s, k, k)) THEN -1
    ELSE DigitsValue(s, k + 1, 10 * acc + DigitValue(SubSeq(s, k, k)))

\* float(s) for a text over digits, "-" and letters: an optional minus sign
\* and at least one digit, anything else raises ValueError
ParseFloat(s) ==
    LET neg == Len(s) > 0 /\ SubSeq(s, 1, 1) = "-"
        body == IF neg THEN SubSeq(s, 2, Len(s)) ELSE s
    IN  IF body = "" THEN Raise("ValueError")
        ELSE IF DigitsValue(body, 1, 0) < 0 THEN Raise("ValueError")
        ELSE Number(neg, DigitsValue(body, 1, 0), 1)

\* CalculadorVoltaje.calcular: corriente * resistencia
Multiply(a, b) == Number(a.neg # b.neg, a.num * b.num, 1)

\* CalculadorCorriente.calcular and CalculadorResistencia.calcular: a float
\* division, which raises for a divisor 0.0 or -0.0
Divide(a, b) ==
    IF b.num = 0 THEN Raise("ZeroDivisionError")
    ELSE Number(a.neg # b.neg, a.num, b.num)

ZeroDivisionText == "float division by zero"

RECURSIVE NatStr(_)
NatStr(n) ==
    IF n < 10 THEN DigitChars[n + 1]
    ELSE NatStr(n \div 10) \o DigitChars[(n % 10) + 1]

\* x in hundredths, rounded to the nearest, a tie to the even one
Hundredths(x) ==
    LET q == (100 * x.num) \div x.den
        r == (100 * x.num) % x.den
    IN  IF 2 * r > x.den THEN q + 1
        ELSE IF 2 * r = x.den THEN q + (q % 2)
        ELSE q

\* format(x, ".2f")
Format2f(x) ==
    LET h == Hundredths(x)
    IN  (IF x.neg THEN "-" ELSE "") \o NatStr(h \div 100) \o "."
            \o DigitChars[((h \div 10) % 10) + 1] \o DigitChars[(h % 10) + 1]

(* --------------------- calculators and factories ----------------------- *)

\* calculadora.calcular(a, b) of the class the factory returned
Calcular(clase, a, b) ==
    IF clase = "CalculadorVoltaje" THEN Multiply(a, b) ELSE Divide(a, b)

\* ley-ohm-calculadora.py, lines 22-32
CrearCalculadoraCli(tipo) ==
    IF tipo = "voltaje" THEN "CalculadorVoltaje"
    ELSE IF tipo = "corriente" THEN "CalculadorCorriente"
    ELSE IF tipo = "resistencia" THEN "CalculadorResistencia"
    ELSE "ValueError"

\* ley-ohm-calculadora (1).py, lines 95-111
CrearCalculadoraCliDoc(tipo) ==
    IF tipo = "voltaje" THEN "CalculadorVoltaje"
    ELSE IF tipo = "corriente" THEN "CalculadorCorriente"
    ELSE IF tipo = "resistencia" THEN "CalculadorResistencia"
    ELSE "ValueError"

\* ley-ohm-desktop.py, lines 92-108: the comparisons are with the
\* capitalised names the combobox offers
CrearCalculadoraDesktop(tipo) ==
    IF tipo = "Voltaje" THEN "CalculadorVoltaje"
    ELSE IF tipo = "Corriente" THEN "CalculadorCorriente"
    ELSE IF tipo = "Resistencia" THEN "CalculadorResistencia"
    ELSE "ValueError"

\* ley-ohm-django.py, lines 49-59
CrearCalculadoraWeb(tipo) ==
    IF tipo = "voltaje" THEN "CalculadorVoltaje"
    ELSE IF tipo = "corriente" THEN "CalculadorCorriente"
    ELSE IF tipo = "resistencia" THEN "CalculadorResistencia"
    ELSE "ValueError"

Variants == {"cli", "cli_doc", "desktop", "web"}

\* FabricaCalculadoraOhm.crear_calculadora of the given variant
CrearCalculadora(variant, tipo) ==
    IF variant = "cli" THEN CrearCalculadoraCli(tipo)
    ELSE IF variant = "cli_doc" THEN CrearCalculadoraCliDoc(tipo)
    ELSE IF variant = "desktop" THEN CrearCalculadoraDesktop(tipo)
    ELSE CrearCalculadoraWeb(tipo)

FactoryError == "Tipo de calculadora no valido"

TipoTexts ==
    { "voltaje", "corriente", "resistencia", "Voltaje", "Corriente",
      "Resistencia", "VOLTAJE", "", "potencia", "voltaje ", " voltaje",
      "volt", "1", "resistencias" }

(* --------------------------- calculator state -------------------------- *)

\* the watcher does not run beside a calculator
WatcherOff ==
    /\ mainPc = "off"
    /\ exitCode = -1
    /\ stopped = FALSE
    /\ handlers = FALSE
    /\ obsPc = "unstarted"
    /\ queue = <<>>
    /\ events = <<>>
    /\ hPc = [i \in Ids |-> "none"]
    /\ filtered = [i \in Ids |-> 0]
    /\ published = [i \in Ids |-> 0]
    /\ steps = [i \in Ids |-> <<>>]
    /\ printed = [i \in Ids |-> <<>>]
    /\ ahead = [i \in Ids |-> {}]
    /\ worktree = {}
    /\ index = {}
    /\ commits = <<>>
    /\ remote = 0
    /\ config = Globals

\* the inputs of one operation
Request(method, tipo, valor1, valor2) ==
    [method |-> method, tipo |-> tipo, valor1 |-> valor1, valor2 |-> valor2]

NoRequest == Request("", "", "", "")

\* an output: a printed line, a traceback, a label text, a JSON response
\* with its status and single key, or the server's error page
Output(kind, status, key, text) ==
    [kind |-> kind, status |-> status, key |-> key, text |-> text]

NoOutput == Output("", 0, "", "")

(* ------------------- the factory on arbitrary tipo --------------------- *)

\* crear_calculadora of one variant is about to be called with one tipo
InitFactory ==
    /\ WatcherOff
    /\ app \in Variants
    /\ oPc = "call"
    /\ \E t \in TipoTexts : oReq = Request("", t, "", "")
    /\ oTyped = ""
    /\ oCalc = "none"
    /\ oOut = NoOutput

FactoryCall ==
    /\ oPc = "call"
    /\ oCalc' = CrearCalculadora(app, oReq.tipo)
    /\ oPc' = "returned"
    /\ UNCHANGED <<app, oReq, oTyped, oOut>>
    /\ UNCHANGED <<watcherVars, config>>

NextFactory == FactoryCall

SpecFactory == InitFactory /\ [][NextFactory]_vars

(* ------------------------ command-line front end ----------------------- *)

Opciones == {"1", "2", "3", "4", "5", "", "x", "04"}

GoodbyeLine == "Gracias por usar la calculadora de la Ley de Ohm. Hasta luego!"

InvalidOptionLine == "Opcion no valida. Por favor, seleccione una opcion del 1 al 4."

InvalidNumberLine == "Por favor, ingrese un numero valido."

ResultLine(tipo, resultado) ==
    "El resultado del calculo de " \o tipo \o " es: " \o Format2f(resultado)

Line(text) == Output("print", 0, "", text)

Traceback(exc, text) == Output("traceback", 1, "", exc \o ": " \o text)

\* lines 57-69: the tipo main sets for an option
TipoOf(opcion) ==
    IF opcion = "1" THEN "voltaje"
    ELSE IF opcion = "2" THEN "corriente"
    ELSE "resistencia"

\* lines 49-57 and 75-76: the menu is shown and an option is read; "4"
\* leaves the loop, "1", "2", "3" enter the first obtener_entrada, anything
\* else prints the invalid-option line and starts the loop again
CliMenu(opcion) ==
    /\ app = "cli"
    /\ oPc = "menu"
    /\ oTyped' = opcion
    /\ IF opcion = "4"
       THEN /\ oOut' = Line(GoodbyeLine)
            /\ oPc' = "ended"
            /\ UNCHANGED oReq
       ELSE IF opcion \in {"1", "2", "3"}
       THEN /\ oReq' = Request("", TipoOf(opcion), NoOutput, NoOutput)
            /\ oPc' = "valor1"
            /\ UNCHANGED oOut
       ELSE /\ oOut' = Line(InvalidOptionLine)
            /\ oPc' = "menu"
            /\ UNCHANGED oReq
    /\ UNCHANGED <<app, oCalc>>
    /\ UNCHANGED <<watcherVars, config>>

\* lines 41-46: one round of obtener_entrada's loop: a text is read; when
\* float() accepts it the function returns the number, otherwise it prints
\* and asks again
ObtenerEntrada(text) ==
    /\ oTyped' = text
    /\ IF ParseFloat(text).exc = ""
       THEN /\ oReq' = IF oPc = "valor1"
                       THEN [oReq EXCEPT !.valor1 = ParseFloat(text)]
                       ELSE [oReq EXCEPT !.valor2 = ParseFloat(text)]
            /\ oPc' = IF oPc = "valor1" THEN "valor2" ELSE "calc"
            /\ UNCHANGED oOut
       ELSE /\ oOut' = Line(InvalidNumberLine)
            /\ UNCHANGED <<oPc, oReq>>
    /\ UNCHANGED <<app, oCalc>>
    /\ UNCHANGED <<watcherVars, config>>

\* lines 58-69: main is inside one of its calls of obtener_entrada
CliEntrada ==
    /\ app = "cli"
    /\ oPc \in {"valor1", "valor2"}
    /\ \E text \in InputTexts : ObtenerEntrada(text)

\* lines 71-74: factory, calculation and the result line.  No handler
\* encloses them: an exception leaves main and ends the interpreter.
CliCalcular ==
    /\ app = "cli"
    /\ oPc = "calc"
    /\ oCalc' = CrearCalculadoraCli(oReq.tipo)
    /\ IF oCalc' = "ValueError"
       THEN /\ oOut' = Traceback("ValueError", FactoryError)
            /\ oPc' = "crashed"
       ELSE LET resultado == Calcular(oCalc', oReq.valor1, oReq.valor2)
            IN  IF resultado.exc # ""
                THEN /\ oOut' = Traceback(resultado.exc, ZeroDivisionText)
                     /\ oPc' = "crashed"
                ELSE /\ oOut' = Line(ResultLine(oReq.tipo, resultado))
                     /\ oPc' = "menu"
    /\ UNCHANGED <<app, oReq, oTyped>>
    /\ UNCHANGED <<watcherVars, config>>

(* ---------------------------- desktop front end ------------------------ *)

\* what the editable combobox can hold
FrontTipos ==
    { "voltaje", "corriente", "resistencia", "Voltaje", "Corriente",
      "Resistencia", "potencia", "" }

Label(text) == Output("label", 0, "", text)

NumericErrorText == "Error: Ingrese valores numericos validos"

Unidad(tipo) ==
    IF tipo = "Voltaje" THEN "V" ELSE IF tipo = "Corriente" THEN "A" ELSE "Ohm"

\* the user fills the combobox and the two entries
DesktopType ==
    /\ app = "desktop"
    /\ oPc = "idle"
    /\ \E tipo \in FrontTipos, valor1 \in InputTexts, valor2 \in InputTexts :
           oReq' = Request("", tipo, valor1, valor2)
    /\ oPc' = "typed"
    /\ UNCHANGED <<app, oTyped, oCalc, oOut>>
    /\ UNCHANGED <<watcherVars, config>>

\* lines 177-199: the button's command; every statement is inside the try,
\* ValueError has its own message and any other exception shows its text
DesktopCalcular ==
    /\ app = "desktop"
    /\ oPc = "typed"
    /\ LET valor1 == ParseFloat(oReq.valor1)
           valor2 == ParseFloat(oReq.valor2)
           clase == CrearCalculadoraDesktop(oReq.tipo)
           resultado == Calcular(clase, valor1, valor2)
       IN  IF valor1.exc # "" \/ valor2.exc # ""
           THEN /\ oOut' = Label(NumericErrorText)
                /\ UNCHANGED oCalc
           ELSE /\ oCalc' = clase
                /\ IF clase = "ValueError"
                   THEN oOut' = Label(NumericErrorText)
                   ELSE IF resultado.exc # ""
                   THEN oOut' = Label("Error: " \o ZeroDivisionText)
                   ELSE oOut' = Label(oReq.tipo \o ": " \o Format2f(resultado)
                                          \o " " \o Unidad(oReq.tipo))
    /\ oPc' = "shown"
    /\ UNCHANGED <<app, oReq, oTyped>>
    /\ UNCHANGED <<watcherVars, config>>

\* back in the Tk main loop (line 204).  calcular reads the three widgets
\* and nothing else, so what the window showed before plays no part in the
\* next click and is not kept.
DesktopIdle ==
    /\ app = "desktop"
    /\ oPc = "shown"
    /\ oPc' = "idle"
    /\ oReq' = NoRequest
    /\ oCalc' = "none"
    /\ oOut' = NoOutput
    /\ UNCHANGED <<app, oTyped>>
    /\ UNCHANGED <<watcherVars, config>>

(* ------------------------------ web front end -------------------------- *)

\* a form field the request does not carry
Absent == "<absent>"

Methods == {"GET", "POST", "PUT", "DELETE"}

FormTipos == FrontTipos \cup {Absent}

FormTexts == InputTexts \cup {Absent}

\* request.POST is filled from the body of a POST only
Requests ==
    { Request("POST", t, a, b) : t \in FormTipos, a \in FormTexts, b \in FormTexts }
        \cup { Request(m, Absent, Absent, Absent) : m \in Methods \ {"POST"} }

JsonResponse(status, key, text) == Output("json", status, key, text)

\* what Django answers when an exception leaves the view
ServerError(exc) == Output("html", 500, "", exc)

\* lines 67-68: float(request.POST.get(name, 0))
FormFloat(text) == IF text = Absent THEN Number(FALSE, 0, 1) ELSE ParseFloat(text)

\* line 66: request.POST.get('tipo') is None without the field, and no
\* branch of the factory accepts None
FormTipo(text) == IF text = Absent THEN "None" ELSE text

\* lines 64-77: the view.  The two float() calls stand before the try, and
\* the try catches ValueError only.
WebView(request) ==
    /\ oReq' = request
    /\ oPc' = "responded"
    /\ IF request.method # "POST"
       THEN /\ oOut' = JsonResponse(405, "error", "Metodo no permitido")
            /\ UNCHANGED oCalc
       ELSE LET valor1 == FormFloat(request.valor1)
                valor2 == FormFloat(request.valor2)
                clase == CrearCalculadoraWeb(FormTipo(request.tipo))
                resultado == Calcular(clase, valor1, valor2)
            IN  IF valor1.exc # "" \/ valor2.exc # ""
                THEN /\ oOut' = ServerError("ValueError")
                     /\ UNCHANGED oCalc
                ELSE /\ oCalc' = clase
                     /\ IF clase = "ValueError"
                        THEN oOut' = JsonResponse(400, "error", FactoryError)
                        ELSE IF resultado.exc # ""
                        THEN oOut' = ServerError(resultado.exc)
                        ELSE oOut' = JsonResponse(200, "resultado", Format2f(resultado))
    /\ UNCHANGED <<app, oTyped>>
    /\ UNCHANGED <<watcherVars, config>>

\* the server calls the view with the next request
WebCalcular ==
    /\ app = "web"
    /\ oPc = "waiting"
    /\ \E request \in Requests : WebView(request)

\* the response is sent; the view keeps nothing between two requests
WebSend ==
    /\ app = "web"
    /\ oPc = "responded"
    /\ oPc' = "waiting"
    /\ oReq' = NoRequest
    /\ oCalc' = "none"
    /\ oOut' = NoOutput
    /\ UNCHANGED <<app, oTyped>>
    /\ UNCHANGED <<watcherVars, config>>

(* --------------------- the three front ends as one --------------------- *)

FrontEnds == {"cli", "desktop", "web"}

\* where each program waits for its first input
StartOf(a) ==
    IF a = "cli" THEN "menu" ELSE IF a = "desktop" THEN "idle" ELSE "waiting"

InitOhm ==
    /\ WatcherOff
    /\ app \in FrontEnds
    /\ oPc = StartOf(app)
    /\ oReq = NoRequest
    /\ oTyped = ""
    /\ oCalc = "none"
    /\ oOut = NoOutput

NextOhm ==
    \/ \E opcion \in Opciones : CliMenu(opcion)
    \/ CliEntrada
    \/ CliCalcular
    \/ DesktopType
    \/ DesktopCalcular
    \/ DesktopIdle
    \/ WebCalcular
    \/ WebSend

SpecOhm == InitOhm /\ [][NextOhm]_vars

(* ------------------------------ claims --------------------------------- *)

\* p occurs in s as a contiguous run of characters
IsSubstring(p, s) ==
    \E a \in 0..(Len(s) - Len(p)) : SubSeq(s, a + 1, a + Len(p)) = p

NoPatternInside(path) ==
    \A n \in 1..Len(IGNORED_EXTENSIONS) : ~IsSubstring(IGNORED_EXTENSIONS[n], path)

\* the contract of the filter, stated on the event alone
AcceptedBySpec(e) == ~e.is_directory /\ NoPatternInside(e.src_path)

\* the events the contract accepts, among all the events of the model
AcceptedEvents == {e \in FilterInputs \cup Events : AcceptedBySpec(e)}

Accepts(e) == e \in AcceptedEvents

\* the handler invocation of notification i is past the filter
Examined(i) == filtered[i] > 0

\* C1: an examined event goes on to publish if and only if it is not a
\* directory event and no ignore pattern is a substring of its path; an
\* empty path is relevant, and 'my.gitignore.md' is rejected.
C1_FilterContract ==
    \A i \in Ids :
        Examined(i) =>
            /\ (published[i] = 1) <=> Accepts(events[i])
            /\ (events[i].src_path = "" /\ ~events[i].is_directory)
                   => published[i] = 1
            /\ events[i].src_path = "my.gitignore.md" => published[i] = 0

C1_Witness ==
    \E i \in Ids :
        /\ Examined(i)
        /\ events[i].src_path = "my.gitignore.md"
        /\ ~events[i].is_directory
        /\ published[i] = 0
        /\ hPc[i] = "returned"

Range(q) == {q[k] : k \in 1..Len(q)}

\* the publish cycle of notification i is between its start and its return
InCycle(i) == hPc[i] \in {"add", "commit", "push"}

\* the handler of notification i is running
InHandler(i) == hPc[i] = "on_modified" \/ InCycle(i)

Raised(i) == \E k \in 1..Len(steps[i]) : steps[i][k].result = "raised"

HasCommit(i) == \E k \in 1..Len(commits) : commits[k].cycle = i

\* PublishOutcome as the log shows it: success is the success line, the
\* error message is the error line
Succeeded(i) == SuccessLine \in Range(printed[i])

\* C2: within a cycle the git calls are add, commit, push in that order, each
\* made only after the previous one returned without failing; a commit
\* exists only for a cycle whose add succeeded, a push is attempted only
\* after the cycle's commit succeeded, and success is reported only after
\* all three calls completed.
C2_StrictOrder ==
    \A i \in Ids :
        /\ Len(steps[i]) <= 3
        /\ \A k \in 1..Len(steps[i]) :
               /\ steps[i][k].op = GitOps[k]
               /\ k > 1 => steps[i][k - 1].result = "ok"
        /\ HasCommit(i) =>
               /\ Len(steps[i]) >= 2
               /\ steps[i][1] = Call("add", "ok")
               /\ steps[i][2] = Call("commit", "ok")
        /\ Succeeded(i) =>
               /\ Len(steps[i]) = 3
               /\ ~Raised(i)
               /\ hPc[i] = "returned"
        /\ InCycle(i) => hPc[i] = GitOps[Len(steps[i]) + 1]

C2_Witness ==
    \E i \in Ids :
        /\ steps[i] = <<Call("add", "ok"), Call("commit", "ok"), Call("push", "ok")>>
        /\ Succeeded(i)
        /\ HasCommit(i)
        /\ remote = Len(commits)

\* C3: when a git call of a cycle raises, no later call of that cycle is
\* made, the exception does not leave the handler (the observer thread goes
\* on), and the cycle's outcome is a failure with a non-empty error message.
C3_FailureCaught ==
    \A i \in Ids :
        Raised(i) =>
            /\ steps[i][Len(steps[i])].result = "raised"
            /\ \A k \in 1..(Len(steps[i]) - 1) : steps[i][k].result # "raised"
            /\ hPc[i] = "returned"
            /\ obsPc # "crashed"
            /\ ~Succeeded(i)
            /\ printed[i] # <<>>
            /\ Len(printed[i][Len(printed[i])]) > 0
            /\ \E e \in Errors : printed[i][Len(printed[i])] = "Error al subir cambios: " \o e

C3_Witness ==
    \E i \in Ids :
        /\ steps[i] = <<Call("add", "ok"), Call("commit", "raised")>>
        /\ hPc[i] = "returned"
        /\ printed[i][Len(printed[i])] = "Error al subir cambios: "

PushFailed(i) == Len(steps[i]) = 3 /\ steps[i][3].result # "ok"

IsPrefix(a, b) == Len(a) <= Len(b) /\ SubSeq(b, 1, Len(a)) = a

\* C4: a failed cycle is neither retried nor rolled back: the step in which
\* the push fails leaves history, index and working tree as they were, the
\* cycle's commit stays in the local history ever after, and a cycle that
\* has returned makes no further git call.
C4_NoRetryNoRollback ==
    [][ /\ IsPrefix(commits, commits')
        /\ \A i \in Ids :
              /\ (hPc[i] = "returned") =>
                     /\ hPc'[i] = "returned"
                     /\ steps'[i] = steps[i]
                     /\ published'[i] = published[i]
              /\ (~PushFailed(i) /\ PushFailed(i)') =>
                     /\ commits' = commits
                     /\ index' = index
                     /\ worktree' = worktree
                     /\ HasCommit(i)'
                     /\ hPc'[i] = "returned"
              /\ PushFailed(i) => HasCommit(i)
      ]_vars

C4_Witness ==
    \E i \in Ids :
        /\ steps[i] = <<Call("add", "ok"), Call("commit", "ok"), Call("push", "raised")>>
        /\ HasCommit(i)
        /\ remote < Len(commits)
        /\ mainPc = "exited"

\* the publish cycle of notification i failed at add, commit or push
Failed(i) == Raised(i) \/ PushFailed(i)


\* notification j is a modification waiting in the observer's queue
Waiting(j) == j \in Range(queue) /\ events[j].event_type = "modified"

\* C5: a failed publish cycle does not end the watch: the observer thread is
\* never killed by it and stays in its loop until the process is
\* interrupted, and a relevant modification that is waiting after a failure
\* gets its own publish cycle unless the process is interrupted first.
C5_FailureNonFatal ==
    /\ [](\A i \in Ids :
             Failed(i) =>
                 /\ obsPc # "crashed"
                 /\ ~stopped => (obsPc \in {"check", "get", "dispatch"} /\ handlers))
    /\ \A j \in Ids :
           ((\E i \in Ids : Failed(i)) /\ Waiting(j) /\ Accepts(events[j]))
               ~> (published[j] = 1 \/ stopped)

C5_Witness ==
    \E i \in Ids : \E j \in Ids :
        /\ i < j
        /\ Raised(i)
        /\ Succeeded(j)
        /\ ~stopped
        /\ steps[j][3] = Call("push", "ok")

\* C6: at most one handler invocation runs at a time, and it runs on the
\* observer thread; while a publish cycle is in progress every other cycle
\* that made a git call has already returned, so the calls of two cycles
\* never interleave.
C6_Serialized ==
    \A i \in Ids :
        InHandler(i) =>
            /\ obsPc = "dispatch"
            /\ \A j \in Ids \ {i} :
                   /\ ~InHandler(j)
                   /\ steps[j] # <<>> => hPc[j] = "returned"

C6_Witness ==
    \E i \in Ids : \E j \in Ids :
        /\ i # j
        /\ Len(steps[i]) = 3
        /\ hPc[i] = "returned"
        /\ hPc[j] = "commit"
        /\ i \in ahead[j]

\* notifications i and j arrived in one burst: j came while i was still
\* waiting in the queue
SameWindow(i, j) == i \in ahead[j]

\* C7 (as stated): two modifications of two different relevant files that
\* arrive in the same window result in one publish cycle, not two.
C7_Coalesced ==
    \A i \in Ids : \A j \in Ids :
        ( /\ j <= Len(events)
          /\ SameWindow(i, j)
          /\ events[i].event_type = "modified"
          /\ events[j].event_type = "modified"
          /\ Accepts(events[i])
          /\ Accepts(events[j])
          /\ events[i].src_path # events[j].src_path )
        => ~(published[i] > 0 /\ published[j] > 0)

\* C8 (as stated): publish never creates an empty commit.
C8_NoEmptyCommit ==
    \A k \in 1..Len(commits) : commits[k].files # {}

\* C9 (as stated, on a finished run): when the process has ended, every
\* modification notification was examined by the filter exactly once and
\* published exactly once if accepted, never otherwise.
C9_ExactlyOnce ==
    (mainPc = "exited") =>
        \A i \in 1..Len(events) :
            events[i].event_type = "modified" =>
                /\ filtered[i] = 1
                /\ published[i] = IF Accepts(events[i]) THEN 1 ELSE 0

\* C9 (amended): a modification notification is examined by the filter at
\* most once, and exactly once when the observer thread took it from the
\* queue before observation was stopped; publish is invoked exactly once
\* for an examined notification the filter accepts and never for any
\* other; a modification of '.git/HEAD' never invokes the publisher.
C9_AtMostOnce ==
    \A i \in 1..Len(events) :
        /\ filtered[i] <= 1
        /\ published[i] = IF Examined(i) /\ Accepts(events[i]) THEN 1 ELSE 0
        /\ (events[i].event_type = "modified" /\ ~Examined(i))
               => (i \in Range(queue) \/ hPc[i] = "on_modified" \/ stopped)
        /\ events[i].event_type # "modified" => ~Examined(i)
        /\ ~Accepts(events[i]) => steps[i] = <<>>
        /\ events[i].src_path = ".git/HEAD" => (published[i] = 0 /\ steps[i] = <<>>)

C9_Witness ==
    \E i \in Ids : \E j \in Ids :
        /\ j <= Len(events)
        /\ i <= Len(events)
        /\ events[i].src_path = ".git/HEAD"
        /\ Examined(i)
        /\ published[i] = 0
        /\ hPc[i] = "returned"
        /\ Examined(j)
        /\ published[j] = 1

\* C10: after the interrupt the process ends with exit code 0, and it ends
\* only when the observer thread has ended and no handler is running, so a
\* publish cycle in flight at the interrupt runs to its end first; once
\* observer.stop() has returned no event is filtered and no publish cycle
\* starts.
C10_CleanStop ==
    /\ [](mainPc = "exited" /\ stopped =>
             /\ exitCode = 0
             /\ obsPc = "ended"
             /\ ~handlers
             /\ \A i \in Ids : ~InHandler(i))
    /\ [][ (mainPc \in {"join", "exited"}) =>
               (published' = published /\ filtered' = filtered)
         ]_vars
    /\ (stopped ~> (mainPc = "exited" /\ exitCode = 0))

C10_Witness ==
    /\ mainPc = "stopping"
    /\ stopped
    /\ obsPc = "dispatch"
    /\ \E i \in Ids : hPc[i] = "push"
    /\ \E j \in Ids : Waiting(j) /\ Accepts(events[j])


(* C11: when initialization fails (Repo(REPO_PATH) raises, or the watch    *)
(* cannot be scheduled or started) the process exits with a non-zero code  *)
(* before the watch loop: the observer thread never ran, no notification   *)
(* was produced or filtered, and no add, commit or push was attempted.  An *)
(* exit that no interrupt preceded is such a failure.                      *)
C11_InitFailureFatal ==
    /\ (mainPc = "exited" /\ ~stopped) => exitCode > 0
    /\ exitCode > 0 =>
          /\ mainPc = "exited"
          /\ obsPc = "unstarted"
          /\ ~handlers
          /\ events = <<>>
          /\ queue = <<>>
          /\ \A i \in Ids : /\ filtered[i] = 0
                             /\ published[i] = 0
                             /\ steps[i] = <<>>
                             /\ printed[i] = <<>>
          /\ commits = <<>>
          /\ index = {}
          /\ remote = 0

C11_Witness ==
    /\ mainPc = "exited"
    /\ exitCode = 1
    /\ ~stopped
    /\ obsPc = "unstarted"

(* C12: every commit the publisher creates carries the one configured      *)
(* message, whatever is staged and whichever notification started the      *)
(* cycle, and the message, remote name, branch name and ignore list keep   *)
(* the values bound at module load.                                        *)
C12_FixedMessage ==
    /\ config = Globals
    /\ \A k \in 1..Len(commits) : commits[k].message = COMMIT_MESSAGE

C12_Witness ==
    /\ Len(commits) = 2
    /\ commits[1].files # commits[2].files
    /\ commits[1].cycle # commits[2].cycle
    /\ config.ignored = IGNORED_EXTENSIONS


(* C14: only a "modified" notification about a non-directory path can      *)
(* start a publish cycle.  A created, deleted, moved, closed or opened     *)
(* notification never reaches on_modified, so it is not filtered and       *)
(* prints nothing, and neither it nor a notification about a directory     *)
(* invokes the publisher: no add, commit or push is made for it.           *)
C14_OnlyModifiedFiles ==
    /\ \A i \in 1..Len(events) :
          /\ events[i].event_type # "modified" =>
                /\ hPc[i] = "none"
                /\ filtered[i] = 0
                /\ printed[i] = <<>>
          /\ (events[i].event_type # "modified" \/ events[i].is_directory) =>
                /\ published[i] = 0
                /\ steps[i] = <<>>
    /\ \A k \in 1..Len(commits) :
          /\ events[commits[k].cycle].event_type = "modified"
          /\ ~events[commits[k].cycle].is_directory

\* a creation of a file the filter would accept has been taken from the
\* queue and dropped by the dispatcher
C14_Witness ==
    /\ Len(events) = 1
    /\ events[1] = FileEvent("created", "src/app.py", FALSE)
    /\ queue = <<>>
    /\ obsPc = "check"
    /\ published[1] = 0


\* nothing is queued, no handler runs and every write under .git has been
\* reported
Idle ==
    /\ queue = <<>>
    /\ \A i \in SelfIds : ~InHandler(i)
    /\ SelfCount = Len(WritesFrom(1))

\* number of publish cycles started so far
Cycles == Cardinality({i \in SelfIds : published[i] > 0})

\* no notification about a file the publisher rewrites starts a cycle
SelfRejected ==
    \A j \in 1..Len(events) :
        events[j].src_path \in GitPaths =>
            /\ published[j] = 0
            /\ steps[j] = <<>>
            /\ (hPc[j] = "returned" => filtered[j] = 1)

(* C15: the publisher does not trigger itself.  Every notification about   *)
(* a file a git call rewrites under .git is rejected by the filter, so     *)
(* there are never more publish cycles than external notifications; the    *)
(* system always becomes idle again, and once idle it stays idle until the *)
(* next external notification.                                             *)
C15_NoSelfTrigger ==
    /\ [](SelfRejected /\ Cycles <= ExternalCount)
    /\ [][Idle => (Idle' \/ ExternalCount' > ExternalCount)]_vars
    /\ []<>Idle

\* a cycle has completed, its three writes under .git have all been
\* reported and rejected, and the system is idle again
C15_Witness ==
    /\ Idle
    /\ Cycles = 1
    /\ SelfCount = Len(GitOps)
    /\ \A j \in 1..Len(events) : hPc[j] = "returned"


\* what the docstring of crear_calculadora promises for a tipo
FactoryContract(tipo) ==
    IF tipo = "voltaje" THEN "CalculadorVoltaje"
    ELSE IF tipo = "corriente" THEN "CalculadorCorriente"
    ELSE IF tipo = "resistencia" THEN "CalculadorResistencia"
    ELSE "ValueError"

(* C13: in every variant crear_calculadora(tipo) returns a voltage         *)
(* calculator for "voltaje", a current calculator for "corriente", a       *)
(* resistance calculator for "resistencia", and raises ValueError for      *)
(* every other tipo.                                                       *)
C13_FactoryContract ==
    oPc = "returned" => oCalc = FactoryContract(oReq.tipo)

\* the same, for the variants other than the desktop one
C13_ExceptDesktop ==
    (oPc = "returned" /\ app # "desktop") => oCalc = FactoryContract(oReq.tipo)

\* the desktop factory has been called with a name of the docstring
C13_DesktopCase ==
    /\ oPc = "returned"
    /\ app = "desktop"
    /\ oReq.tipo = "voltaje"
    /\ oCalc = "ValueError"

\* the text parses as a number
IsNumeric(text) == ParseFloat(text).exc = ""

\* every step of the command-line calculator but the end of the loop: an
\* option other than "1".."4" calculates nothing, prints the invalid-option
\* line and shows the menu again; obtener_entrada asks again after a text
\* that is no number and returns the first one that is
CliSteps ==
    /\ (oPc = "menu" /\ oTyped' \notin {"1", "2", "3", "4"}) =>
          /\ oPc' = "menu"
          /\ oOut' = Line(InvalidOptionLine)
          /\ oCalc' = oCalc
          /\ oReq' = oReq
    /\ (oPc = "menu" /\ oTyped' \in {"1", "2", "3"}) => oPc' = "valor1"
    /\ (oPc \in {"valor1", "valor2"} /\ ~IsNumeric(oTyped')) =>
          /\ oPc' = oPc
          /\ oReq' = oReq
          /\ oOut' = Line(InvalidNumberLine)
    /\ (oPc = "valor1" /\ IsNumeric(oTyped')) =>
          /\ oPc' = "valor2"
          /\ oReq'.valor1 = ParseFloat(oTyped')
    /\ (oPc = "valor2" /\ IsNumeric(oTyped')) =>
          /\ oPc' = "calc"
          /\ oReq'.valor2 = ParseFloat(oTyped')

\* the loop is left only from the menu, by the input "4", and every
\* calculation returns to the menu
CliLoopEnd ==
    /\ oPc' \notin {"menu", "valor1", "valor2", "calc"} =>
          /\ oPc = "menu"
          /\ oTyped' = "4"
          /\ oPc' = "ended"
    /\ oPc = "calc" =>
          /\ oPc' = "menu"
          /\ oOut'.kind = "print"

(* C16: the main loop of the command-line calculator ends only after the   *)
(* input "4"; any input other than "1", "2", "3", "4" calculates nothing,  *)
(* prints the invalid-option message and shows the menu again; every       *)
(* calculation returns to the menu; obtener_entrada keeps asking until a   *)
(* text parses as a number and returns that first valid number.            *)
C16_CliLoop == [][app = "cli" => (CliSteps /\ CliLoopEnd)]_vars

\* the parts of C16 about the menu and obtener_entrada alone
C16_MenuAndEntrada == [][app = "cli" => CliSteps]_vars

\* the loop has ended without the input "4"
C16_CrashCase ==
    /\ app = "cli"
    /\ oPc = "crashed"
    /\ oTyped # "4"
    /\ oOut.kind = "traceback"

\* the text is a number printed with two decimals
TwoDecimals(text) ==
    /\ Len(text) >= 4
    /\ SubSeq(text, Len(text) - 2, Len(text) - 2) = "."
    /\ IsDigit(SubSeq(text, Len(text) - 1, Len(text) - 1))
    /\ IsDigit(SubSeq(text, Len(text), Len(text)))
    /\ IsNumeric(SubSeq(text, 1, Len(text) - 3))

\* a form value that is a number: the default of a missing field, or a
\* text that parses
NumericField(text) == text = Absent \/ IsNumeric(text)

ValidTipo(tipo) == tipo \in {"voltaje", "corriente", "resistencia"}

(* C17: the web endpoint always answers with a JSON response: status 405   *)
(* with an error for a method other than POST, status 400 with an error    *)
(* for a POST with an unknown tipo or a non-numeric valor1 or valor2, and  *)
(* a 'resultado' with two decimals for a POST with a valid tipo and        *)
(* numeric values.                                                         *)
C17_AlwaysJson ==
    (app = "web" /\ oPc = "responded") =>
        /\ oOut.kind = "json"
        /\ oReq.method # "POST" =>
              (oOut.status = 405 /\ oOut.key = "error")
        /\ (/\ oReq.method = "POST"
            /\ \/ ~ValidTipo(oReq.tipo)
               \/ ~NumericField(oReq.valor1)
               \/ ~NumericField(oReq.valor2)) =>
              (oOut.status = 400 /\ oOut.key = "error")
        /\ (/\ oReq.method = "POST"
            /\ ValidTipo(oReq.tipo)
            /\ NumericField(oReq.valor1)
            /\ NumericField(oReq.valor2)) =>
              (oOut.key = "resultado" /\ TwoDecimals(oOut.text))

\* the same, for the requests whose values are numeric and whose divisor
\* is not zero
C17_NumericNonZero ==
    (/\ app = "web"
     /\ oPc = "responded"
     /\ oOut.kind # "json") =>
        \/ ~NumericField(oReq.valor1)
        \/ ~NumericField(oReq.valor2)
        \/ /\ oReq.tipo \in {"corriente", "resistencia"}
           /\ FormFloat(oReq.valor2).num = 0

\* a POST with a valid tipo and a text that is no number got the server's
\* error page
C17_NonNumericCase ==
    /\ app = "web"
    /\ oPc = "responded"
    /\ oReq = Request("POST", "voltaje", "x", "3")
    /\ oOut = ServerError("ValueError")

\* the operation divides by zero: its second value is 0 and its tipo
\* selects a division
ZeroDivisor(tipo, valor2) ==
    /\ tipo \in {"corriente", "resistencia", "Corriente", "Resistencia"}
    /\ valor2.exc = ""
    /\ valor2.num = 0

(* C18: a zero divisor never terminates or breaks a front end: the         *)
(* command-line calculator returns to its menu, the desktop application    *)
(* shows an error text and stays usable, and the web endpoint returns a    *)
(* JSON error response.                                                    *)
C18_ZeroDivisorSafe ==
    /\ app = "cli" => oPc # "crashed"
    /\ (/\ app = "desktop"
        /\ oPc = "shown"
        /\ IsNumeric(oReq.valor1)
        /\ ZeroDivisor(oReq.tipo, ParseFloat(oReq.valor2))) =>
          SubSeq(oOut.text, 1, 5) = "Error"
    /\ (/\ app = "web"
        /\ oPc = "responded"
        /\ oReq.method = "POST"
        /\ NumericField(oReq.valor1)
        /\ ZeroDivisor(oReq.tipo, FormFloat(oReq.valor2))) =>
          (oOut.kind = "json" /\ oOut.key = "error")

\* the desktop part of C18 alone
C18_DesktopSafe ==
    (/\ app = "desktop"
     /\ oPc = "shown"
     /\ IsNumeric(oReq.valor1)
     /\ ZeroDivisor(oReq.tipo, ParseFloat(oReq.valor2))) =>
        /\ SubSeq(oOut.text, 1, 5) = "Error"
        /\ oReq.tipo \in {"Corriente", "Resistencia"} =>
              oOut = Label("Error: " \o ZeroDivisionText)
        /\ ENABLED DesktopIdle

\* the command-line calculator has ended on a current with resistance 0
C18_CliCase ==
    /\ app = "cli"
    /\ oPc = "crashed"
    /\ oReq.tipo = "corriente"
    /\ oReq.valor2.num = 0
    /\ oOut = Traceback("ZeroDivisionError", ZeroDivisionText)

\* the division error has left the view
C18_WebCase ==
    /\ app = "web"
    /\ oPc = "responded"
    /\ oReq = Request("POST", "resistencia", "3", "0")
    /\ oOut = ServerError("ZeroDivisionError")

====
